---- MODULE Spec2Model ----
(***************************************************************************)
(* Model of the Indian stock market analyzer (src/your_original_script.py):*)
(* the indicator / scoring / growth / risk functions, the screening loop   *)
(* find_stock_opportunities and the interactive menu of main().            *)
(*                                                                         *)
(* Numbers.  The program computes with IEEE doubles (numpy.float64).  A    *)
(* value is modelled as a record [k, n, d]:                                *)
(*   k = "fin"   the rational n/d (d > 0),                                 *)
(*   k = "nzero" the negative zero -0.0,                                   *)
(*   k = "pinf", "ninf", "nan"  the two infinities and NaN.                *)
(* Finite arithmetic is exact (no rounding) except where stated: the       *)
(* exponential averages and the standard deviation are computed in fixed   *)
(* point.  Comparisons with NaN are false, x/0 is an infinity or NaN, as   *)
(* numpy does for float64 operands.                                        *)
(***************************************************************************)
EXTENDS Integers, Sequences, FiniteSets, TLC

\* ------------------------------------------------------------ float values

NaN == [k |-> "nan", n |-> 0, d |-> 1]

PInf == [k |-> "pinf", n |-> 0, d |-> 1]

NInf == [k |-> "ninf", n |-> 0, d |-> 1]

NZero == [k |-> "nzero", n |-> 0, d |-> 1]

Fin(n, d) == [k |-> "fin", n |-> n, d |-> d]

Num(n) == Fin(n, 1)

IsNaN(x) == x.k = "nan"

IsInf(x) == x.k \in {"pinf", "ninf"}

IsFinite(x) == x.k \in {"fin", "nzero"}

IsZero(x) == x.k = "nzero" \/ (x.k = "fin" /\ x.n = 0)

\* the sign bit of a float: set for negative numbers, -0.0 and -inf
SignBit(x) == x.k \in {"nzero", "ninf"} \/ (x.k = "fin" /\ x.n < 0)

Zero(neg) == IF neg THEN NZero ELSE Num(0)

Inf(neg) == IF neg THEN NInf ELSE PInf

\* a < b on floats: false when either side is NaN
Lt(a, b) ==
    CASE IsNaN(a) \/ IsNaN(b) -> FALSE
      [] a.k = "pinf" \/ b.k = "ninf" -> FALSE
      [] a.k = "ninf" \/ b.k = "pinf" -> TRUE
      [] OTHER -> a.n * b.d < b.n * a.d

Gt(a, b) == Lt(b, a)

Le(a, b) == ~IsNaN(a) /\ ~IsNaN(b) /\ ~Lt(b, a)

Ge(a, b) == Le(b, a)

Neg(x) ==
    CASE x.k = "nan" -> NaN
      [] x.k = "pinf" -> NInf
      [] x.k = "ninf" -> PInf
      [] x.k = "nzero" -> Num(0)
      [] OTHER -> IF x.n = 0 THEN NZero ELSE Fin(-x.n, x.d)

Add(a, b) ==
    CASE IsNaN(a) \/ IsNaN(b) -> NaN
      [] IsInf(a) /\ IsInf(b) -> IF a.k = b.k THEN a ELSE NaN
      [] IsInf(a) -> a
      [] IsInf(b) -> b
      [] a.k = "nzero" /\ b.k = "nzero" -> NZero
      [] OTHER -> Fin(a.n * b.d + b.n * a.d, a.d * b.d)

Sub(a, b) == Add(a, Neg(b))

Mul(a, b) ==
    CASE IsNaN(a) \/ IsNaN(b) -> NaN
      [] (IsInf(a) /\ IsZero(b)) \/ (IsZero(a) /\ IsInf(b)) -> NaN
      [] IsInf(a) \/ IsInf(b) -> Inf(SignBit(a) # SignBit(b))
      [] IsZero(a) \/ IsZero(b) -> Zero(SignBit(a) # SignBit(b))
      [] OTHER -> Fin(a.n * b.n, a.d * b.d)

\* numpy float64 division: x/0 is +-inf, 0/0 and inf/inf are NaN, no exception
Div(a, b) ==
    CASE IsNaN(a) \/ IsNaN(b) -> NaN
      [] IsInf(a) /\ IsInf(b) -> NaN
      [] IsZero(a) /\ IsZero(b) -> NaN
      [] IsInf(a) \/ IsZero(b) -> Inf(SignBit(a) # SignBit(b))
      [] IsInf(b) \/ IsZero(a) -> Zero(SignBit(a) # SignBit(b))
      [] OTHER -> IF b.n > 0 THEN Fin(a.n * b.d, a.d * b.n)
                             ELSE Fin(-(a.n * b.d), a.d * (-b.n))

\* int(x) raises ValueError on NaN and OverflowError on an infinity
IntRaises(x) ==
    CASE IsNaN(x) -> "ValueError"
      [] IsInf(x) -> "OverflowError"
      [] OTHER -> "none"

\* int(x) of a finite float: truncation toward zero
Trunc(x) == IF x.n >= 0 THEN x.n \div x.d ELSE -((-x.n) \div x.d)

\* value equality of two floats (NaN equals nothing, -0.0 equals 0.0)
Eq(a, b) == Le(a, b) /\ Le(b, a)

\* --------------------------------------------------------------- bounds

\* closes of the generated price series are BaseClose-2 .. BaseClose+2
BaseClose == 10

\* number of trailing bars of a generated series that vary freely
TailLen == 3

\* tickers in the universe scanned by one screening run
NumTickers == 3

\* fixed-point resolution of the exponential averages (units per rupee)
EmaScale == 10000

\* fixed-point resolution of a daily return (units per 100%)
RetScale == 1000

\* ----------------------------------------------------- program constants

MinBars == 50

MA20Window == 20

MA50Window == 50

RSIWindow == 14

EMA12Span == 12

EMA26Span == 26

SignalSpan == 9

VolWindow == 20

MinSignalBars == 20

DefaultRiskPercentage == 5

\* ------------------------------------------------------ series helpers

RECURSIVE SumRange(_, _, _)
\* sum of col[from..to] (by halves), NaN as soon as one entry is NaN
SumRange(col, from, to) ==
    IF from > to THEN Num(0)
    ELSE IF from = to THEN col[from]
    ELSE LET mid == (from + to) \div 2
         IN  Add(SumRange(col, from, mid), SumRange(col, mid + 1, to))

\* Series.rolling(window).mean() at the last bar: NaN until the window is full
rolling_mean_last(col, window) ==
    IF Len(col) < window THEN NaN
    ELSE Div(SumRange(col, Len(col) - window + 1, Len(col)), Num(window))

\* Series.diff(): first entry NaN
diff(col) == [i \in 1..Len(col) |-> IF i = 1 THEN NaN ELSE Sub(col[i], col[i - 1])]

\* delta.where(delta > 0, 0): entries failing the test (NaN included) become 0
where_positive(delta) ==
    [i \in 1..Len(delta) |-> IF Gt(delta[i], Num(0)) THEN delta[i] ELSE Num(0)]

\* delta.where(delta < 0, 0)
where_negative(delta) ==
    [i \in 1..Len(delta) |-> IF Lt(delta[i], Num(0)) THEN delta[i] ELSE Num(0)]

\* RSI of the last bar, lines 81-86
RSI_last(col) ==
    LET delta == diff(col)
        gain == rolling_mean_last(where_positive(delta), RSIWindow)
        loss == Neg(rolling_mean_last(where_negative(delta), RSIWindow))
        rs == Div(gain, loss)
    IN  Sub(Num(100), Div(Num(100), Add(Num(1), rs)))

\* a finite float in fixed point, EmaScale units per 1
ToFixed(x) == (x.n * EmaScale) \div x.d

\* Series.ewm(span, adjust=False).mean() steps y to y + alpha*(x - y), with
\* alpha = 2/(span+1); the step is rounded to the fixed-point grid.
\* the closes in fixed point (0 where the close is not a finite number)
FixedCol(col) == [i \in 1..Len(col) |-> IF IsFinite(col[i]) THEN ToFixed(col[i]) ELSE 0]

\* bars 1..i all hold the same finite close
FlatUpTo(col, i) == IsFinite(col[1]) /\ \A j \in 2..i : col[j] = col[1]

RECURSIVE ewm_state(_, _, _)
\* EMA12, EMA26 and Signal (fixed point) at bar i, seeded with the first close.
\* While the closes have not moved every step adds alpha*(x - y) = 0, so the
\* averages of a flat prefix are its close and MACD and Signal are 0; the steps
\* are taken one by one from the first bar that differs.  A NaN close leaves
\* the averages of the closes where they were (pandas carries the value forward).
ewm_state(col, fx, i) ==
    IF i = 1 \/ FlatUpTo(col, i)
    THEN [e12 |-> fx[1], e26 |-> fx[1], sig |-> 0]
    ELSE LET p == ewm_state(col, fx, i - 1)
             e12 == p.e12 + (IF IsFinite(col[i]) THEN (2 * (fx[i] - p.e12)) \div (EMA12Span + 1) ELSE 0)
             e26 == p.e26 + (IF IsFinite(col[i]) THEN (2 * (fx[i] - p.e26)) \div (EMA26Span + 1) ELSE 0)
         IN  [e12 |-> e12, e26 |-> e26,
              sig |-> p.sig + (2 * ((e12 - e26) - p.sig)) \div (SignalSpan + 1)]

\* the three averages at the last bar
ewm_last(col) == ewm_state(col, FixedCol(col), Len(col))

\* data['MACD'] at the last bar, lines 89-91
MACD_last(col) ==
    LET s == ewm_last(col) IN Fin(s.e12 - s.e26, EmaScale)

\* data['Signal'] at the last bar, line 92
Signal_last(col) == Fin(ewm_last(col).sig, EmaScale)

\* pct_change of one bar in fixed point, RetScale units per 100%
pct_change(prev, cur) == (cur.n * prev.d * RetScale) \div (cur.d * prev.n) - RetScale

RECURSIVE ISqrtB(_, _, _)
ISqrtB(n, lo, hi) ==
    IF hi - lo <= 1 THEN lo
    ELSE LET mid == (lo + hi) \div 2
         IN  IF mid * mid <= n THEN ISqrtB(n, mid, hi) ELSE ISqrtB(n, lo, mid)

\* floor of the square root
ISqrt(n) == ISqrtB(n, 0, 40000)

RECURSIVE SumInt(_, _, _)
SumInt(f, from, to) ==
    IF from > to THEN 0
    ELSE IF from = to THEN f[from]
    ELSE LET mid == (from + to) \div 2
         IN  SumInt(f, from, mid) + SumInt(f, mid + 1, to)

\* data['Volatility'] at the last bar, lines 95-96: the sample standard
\* deviation (ddof = 1) of the last 20 daily returns, in percent.  NaN until 20
\* returns exist, and NaN when a return of the window is not a finite number.
Volatility_last(col) ==
    LET n == Len(col)
        first == n - VolWindow + 1
    IN  IF n < VolWindow + 1 THEN NaN
        ELSE IF \E i \in first..n : ~IsFinite(col[i]) \/ ~IsFinite(col[i - 1]) \/ IsZero(col[i - 1])
        THEN NaN
        ELSE LET r == [i \in first..n |-> pct_change(col[i - 1], col[i])]
                 sq == [i \in first..n |-> r[i] * r[i]]
                 s == SumInt(r, first, n)
                 ss == SumInt(sq, first, n) - (s * s) \div VolWindow
             IN  Fin(10 * ISqrt((ss * 100) \div (VolWindow - 1)), RetScale)

\* ------------------------------------------------------------ data frames

\* "no data" (Python None) and a frame: the Close column and the indicator
\* columns at the last bar, the only row of them the program reads
None ==
    [none |-> TRUE, Close |-> <<>>, MA20 |-> NaN, MA50 |-> NaN, RSI |-> NaN,
     MACD |-> NaN, Signal |-> NaN, Volatility |-> NaN]

\* the frame stock.history returns: closes only, no indicator column yet
Frame(col) ==
    [none |-> FALSE, Close |-> col, MA20 |-> NaN, MA50 |-> NaN, RSI |-> NaN,
     MACD |-> NaN, Signal |-> NaN, Volatility |-> NaN]

\* len(data)
len(data) == Len(data.Close)

\* variant: the first bar read where the last one is meant
iloc_first_Close(data) == data.Close[1]

\* data.iloc[-1]['Close']
iloc_last_Close(data) == data.Close[Len(data.Close)]

\* variant: the history test made with the 20 bars get_buy_signal asks for
indicators_from_20_bars(data) ==
    IF data.none \/ len(data) < MinSignalBars THEN None
    ELSE [none |-> FALSE,
          Close |-> data.Close,
          MA20 |-> rolling_mean_last(data.Close, MA20Window),
          MA50 |-> rolling_mean_last(data.Close, MA50Window),
          RSI |-> RSI_last(data.Close),
          MACD |-> MACD_last(data.Close),
          Signal |-> Signal_last(data.Close),
          Volatility |-> Volatility_last(data.Close)]

\* lines 70-98
calculate_technical_indicators(data) ==
    IF data.none \/ len(data) < MinBars THEN None
    ELSE [none |-> FALSE,
          Close |-> data.Close,
          MA20 |-> rolling_mean_last(data.Close, MA20Window),
          MA50 |-> rolling_mean_last(data.Close, MA50Window),
          RSI |-> RSI_last(data.Close),
          MACD |-> MACD_last(data.Close),
          Signal |-> Signal_last(data.Close),
          Volatility |-> Volatility_last(data.Close)]

\* --------------------------------------------------- analysis functions

\* the larger of two floats, a NaN operand skipped
Max2(a, b) == IF IsNaN(a) THEN b ELSE IF IsNaN(b) THEN a ELSE IF Gt(b, a) THEN b ELSE a

RECURSIVE MaxRange(_, _, _)
\* Series.max(): the largest of col[from..to] (by halves), NaN entries skipped
MaxRange(col, from, to) ==
    IF from > to THEN NaN
    ELSE IF from = to THEN col[from]
    ELSE LET mid == (from + to) \div 2
         IN  Max2(MaxRange(col, from, mid), MaxRange(col, mid + 1, to))

\* data['Close'].max()
Close_max(data) == MaxRange(data.Close, 1, Len(data.Close))

\* variant: the moving-average rules tried before the RSI buckets
growth_estimate_ma_first(data) ==
    LET current_price == iloc_last_Close(data)
        rsi == data.RSI
        ma20 == data.MA20
        ma50 == data.MA50
        growth_percent ==
            IF Gt(current_price, ma20) /\ Gt(ma20, ma50) THEN Num(15)
            ELSE IF Gt(ma20, current_price) /\ Gt(current_price, ma50) THEN Num(8)
            ELSE IF Le(Num(30), rsi) /\ Le(rsi, Num(45)) THEN Num(10)
            ELSE IF Lt(Num(45), rsi) /\ Le(rsi, Num(55)) THEN Num(7)
            ELSE IF Lt(Num(55), rsi) /\ Le(rsi, Num(65)) THEN Num(12)
            ELSE IF Gt(current_price, ma50) THEN Num(5)
            ELSE Num(0)
    IN  [growth_percent |-> growth_percent,
         target_price |-> Mul(current_price, Add(Num(1), Div(growth_percent, Num(100))))]

\* lines 105-130: the estimate before the historical-high rule
growth_estimate(data) ==
    LET current_price == iloc_last_Close(data)
        rsi == data.RSI
        ma20 == data.MA20
        ma50 == data.MA50
        growth_percent ==
            IF Le(Num(30), rsi) /\ Le(rsi, Num(45)) THEN Num(10)
            ELSE IF Lt(Num(45), rsi) /\ Le(rsi, Num(55)) THEN Num(7)
            ELSE IF Lt(Num(55), rsi) /\ Le(rsi, Num(65)) THEN Num(12)
            ELSE IF Gt(current_price, ma20) /\ Gt(ma20, ma50) THEN Num(15)
            ELSE IF Gt(ma20, current_price) /\ Gt(current_price, ma50) THEN Num(8)
            ELSE IF Gt(current_price, ma50) THEN Num(5)
            ELSE Num(0)
    IN  [growth_percent |-> growth_percent,
         target_price |-> Mul(current_price, Add(Num(1), Div(growth_percent, Num(100))))]

\* variant: the historical high taken whenever it promises more, not less
growth_raised_to_high(data) ==
    IF data.none \/ len(data) < MinBars
    THEN [growth_percent |-> Num(0), target_price |-> Num(0)]
    ELSE LET current_price == iloc_last_Close(data)
             est == growth_estimate(data)
             historical_high == Close_max(data)
             potential_growth ==
                 Mul(Sub(Div(historical_high, current_price), Num(1)), Num(100))
         IN  IF Gt(historical_high, current_price) /\ Gt(potential_growth, est.growth_percent)
             THEN [growth_percent |-> potential_growth, target_price |-> historical_high]
             ELSE est

\* lines 100-143
calculate_growth_potential(data) ==
    IF data.none \/ len(data) < MinBars
    THEN [growth_percent |-> Num(0), target_price |-> Num(0)]
    ELSE LET current_price == iloc_last_Close(data)
             est == growth_estimate(data)
             historical_high == Close_max(data)
             potential_growth ==
                 Mul(Sub(Div(historical_high, current_price), Num(1)), Num(100))
         IN  IF Gt(historical_high, current_price) /\ Lt(potential_growth, est.growth_percent)
             THEN [growth_percent |-> potential_growth, target_price |-> historical_high]
             ELSE est

\* lines 145-153
calculate_stop_loss(data, risk_percentage) ==
    IF data.none THEN Num(0)
    ELSE Mul(iloc_last_Close(data), Sub(Num(1), Div(risk_percentage, Num(100))))

\* "x is np.nan": an identity test against the one np.nan object.  A value read
\* from a frame row is a fresh numpy.float64, never that object, so the test is
\* false for every value, NaN included.
is_np_nan(x) == FALSE

\* variant: the RSI sub-score without its upper limit of 70
trend_strength_rsi_unbounded(data) ==
    IF data.none \/ is_np_nan(data.MA20) \/ is_np_nan(data.MA50) THEN 0
    ELSE LET close == iloc_last_Close(data)
             rsi == data.RSI
         IN  (IF Gt(close, data.MA20) THEN 20 ELSE 0)
           + (IF Gt(close, data.MA50) THEN 20 ELSE 0)
           + (IF Gt(data.MA20, data.MA50) THEN 20 ELSE 0)
           + (IF Le(Num(50), rsi) THEN 20
              ELSE IF Le(Num(40), rsi) /\ Lt(rsi, Num(50)) THEN 10 ELSE 0)
           + (IF Gt(data.MACD, data.Signal) THEN 20 ELSE 0)

\* lines 204-232
calculate_trend_strength(data) ==
    IF data.none \/ is_np_nan(data.MA20) \/ is_np_nan(data.MA50) THEN 0
    ELSE LET close == iloc_last_Close(data)
             rsi == data.RSI
         IN  (IF Gt(close, data.MA20) THEN 20 ELSE 0)
           + (IF Gt(close, data.MA50) THEN 20 ELSE 0)
           + (IF Gt(data.MA20, data.MA50) THEN 20 ELSE 0)
           + (IF Le(Num(50), rsi) /\ Le(rsi, Num(70)) THEN 20
              ELSE IF Le(Num(40), rsi) /\ Lt(rsi, Num(50)) THEN 10 ELSE 0)
           + (IF Gt(data.MACD, data.Signal) THEN 20 ELSE 0)

\* lines 243-275: the score get_buy_signal accumulates
buy_score(data) ==
    LET current_price == iloc_last_Close(data)
        ma20 == data.MA20
        ma50 == data.MA50
        rsi == data.RSI
    IN  (IF Gt(current_price, ma20) THEN 1 ELSE 0)
      + (IF Gt(current_price, ma50) THEN 1 ELSE 0)
      + (IF Gt(ma20, ma50) THEN 1 ELSE 0)
      + (IF Lt(rsi, Num(30)) THEN 1 ELSE IF Gt(rsi, Num(70)) THEN -1 ELSE 0)
      + (IF Gt(data.MACD, data.Signal) THEN 1 ELSE -1)

\* variant: SELL as far below zero as BUY is above it
buy_signal_symmetric(data) ==
    IF data.none \/ len(data) < MinSignalBars THEN "N/A"
    ELSE LET score == buy_score(data)
         IN  IF score >= 3 THEN "BUY"
             ELSE IF score <= -3 THEN "SELL"
             ELSE "HOLD"

\* variant: SELL already at a score of zero
buy_signal_sell_from_zero(data) ==
    IF data.none \/ len(data) < MinSignalBars THEN "N/A"
    ELSE LET score == buy_score(data)
         IN  IF score >= 3 THEN "BUY"
             ELSE IF score <= 0 THEN "SELL"
             ELSE "HOLD"

\* lines 234-283
get_buy_signal(data) ==
    IF data.none \/ len(data) < MinSignalBars THEN "N/A"
    ELSE LET score == buy_score(data)
         IN  IF score >= 3 THEN "BUY"
             ELSE IF score <= -1 THEN "SELL"
             ELSE "HOLD"

\* variant: a trend score of exactly 70 counted as a strong trend
holding_time_strong_from_70(data) ==
    IF data.none THEN "Unknown"
    ELSE LET volatility == data.Volatility
             trend_score == calculate_trend_strength(data)
         IN  IF Gt(volatility, Num(3))
             THEN IF trend_score >= 70 THEN "4-6 weeks (Short-term)"
                  ELSE "1-3 weeks (Very short-term)"
             ELSE IF Gt(volatility, Num(2))
             THEN IF trend_score >= 70 THEN "2-4 months (Medium-term)"
                  ELSE "1-2 months (Short-term)"
             ELSE IF trend_score >= 70 THEN "4-6 months (Medium-term)"
                  ELSE "2-3 months (Medium-term)"

\* lines 155-179
recommend_holding_time(data) ==
    IF data.none THEN "Unknown"
    ELSE LET volatility == data.Volatility
             trend_score == calculate_trend_strength(data)
         IN  IF Gt(volatility, Num(3))
             THEN IF trend_score > 70 THEN "4-6 weeks (Short-term)"
                  ELSE "1-3 weeks (Very short-term)"
             ELSE IF Gt(volatility, Num(2))
             THEN IF trend_score > 70 THEN "2-4 months (Medium-term)"
                  ELSE "1-2 months (Short-term)"
             ELSE IF trend_score > 70 THEN "4-6 months (Medium-term)"
                  ELSE "2-3 months (Medium-term)"

\* lines 181-202.  The strategy text is the pair of integers it prints; `raises`
\* names the exception of the first int() that fails ("none" when both succeed).
recommend_exit_strategy(data, growth_percent, stop_loss_price) ==
    IF data.none THEN [raises |-> "none", profit |-> 0, loss |-> 0]
    ELSE LET current_price == iloc_last_Close(data)
             profit_percentage == growth_percent
             shown_profit ==
                 IF Gt(data.Volatility, Num(3)) THEN Mul(profit_percentage, Fin(7, 10))
                 ELSE profit_percentage
             shown_loss ==
                 Mul(Div(Sub(current_price, stop_loss_price), current_price), Num(100))
         IN  IF IntRaises(shown_profit) # "none"
             THEN [raises |-> IntRaises(shown_profit), profit |-> 0, loss |-> 0]
             ELSE IF IntRaises(shown_loss) # "none"
             THEN [raises |-> IntRaises(shown_loss), profit |-> 0, loss |-> 0]
             ELSE [raises |-> "none", profit |-> Trunc(shown_profit), loss |-> Trunc(shown_loss)]

\* lines 306-314: the dict get_advanced_analysis returns; `raises` names the
\* exception recommend_exit_strategy ended with, in which case nothing is returned
advanced_dict(growth, stop_loss_price, holding_time, exit_strategy) ==
    [raises |-> exit_strategy.raises,
     growth_percent |-> growth.growth_percent,
     target_price |-> growth.target_price,
     stop_loss_price |-> stop_loss_price,
     holding_time |-> holding_time,
     exit_strategy |-> [profit |-> exit_strategy.profit, loss |-> exit_strategy.loss]]

\* lines 285-314: calculate_stop_loss is called without a risk percentage, so
\* with its default
get_advanced_analysis(data) ==
    IF data.none
    THEN [raises |-> "none", growth_percent |-> Num(0), target_price |-> Num(0),
          stop_loss_price |-> Num(0), holding_time |-> "Unknown",
          exit_strategy |-> [profit |-> 0, loss |-> 0]]
    ELSE advanced_dict(
             calculate_growth_potential(data),
             calculate_stop_loss(data, Num(DefaultRiskPercentage)),
             recommend_holding_time(data),
             recommend_exit_strategy(data,
                                     calculate_growth_potential(data).growth_percent,
                                     calculate_stop_loss(data, Num(DefaultRiskPercentage))))

\* ------------------------------------------------------------------ state

VARIABLES
    pc,                         \* where the program is
    RISK_PERCENTAGE,            \* global, line 636
    PROFIT_TARGET_MULTIPLIER,   \* global, line 637
    budget,                     \* main's budget, line 571
    count,                      \* tickers the running screening loop has taken, line 404
    fetched,                    \* what the data provider answered for each of them
    opportunities,              \* the list find_stock_opportunities builds and returns
    report,                     \* what analyze_specific_stock last printed
    notice,                     \* the last message printed to the user
    input,                      \* argument of the function under analysis
    output                      \* its results

vars ==
    <<pc, RISK_PERCENTAGE, PROFIT_TARGET_MULTIPLIER, budget, count, fetched,
      opportunities, report, notice, input, output>>

NoReport == [kind |-> "none"]

NoOutput == [kind |-> "none"]

\* lines 634-637 and the locals of main before the first menu choice
ProgramStart ==
    /\ RISK_PERCENTAGE = Num(5)
    /\ PROFIT_TARGET_MULTIPLIER = Num(2)
    /\ budget = Num(10000)
    /\ count = 0
    /\ fetched = <<>>
    /\ opportunities = <<>>
    /\ report = NoReport
    /\ notice = "welcome"

ProgramIdle ==
    UNCHANGED <<RISK_PERCENTAGE, PROFIT_TARGET_MULTIPLIER, budget, count, fetched,
                opportunities, report, notice>>

\* everything the analysis functions return for one enriched frame
Analysis(data) ==
    [none |-> data.none,
     trend_score |-> calculate_trend_strength(data),
     signal |-> get_buy_signal(data),
     estimate |-> IF data.none \/ len(data) = 0
                  THEN [growth_percent |-> Num(0), target_price |-> Num(0)]
                  ELSE growth_estimate(data),
     growth |-> calculate_growth_potential(data),
     stop_loss_price |-> calculate_stop_loss(data, Num(DefaultRiskPercentage)),
     holding_time |-> recommend_holding_time(data)]

\* ------------------------------------------- specification over price series

Closes == (BaseClose - 2)..(BaseClose + 2)

\* the last bar may also be a missing (NaN) or a zero close
LastCloses == {Num(c) : c \in Closes} \cup {NaN, Num(0)}

SeriesLens == {MinBars - 1, MinBars, MinBars + TailLen}

\* a series of n bars: BaseClose throughout, then TailLen free bars
Bars(n, tail, last) ==
    [i \in 1..n |->
        IF i = n THEN last
        ELSE IF i > n - TailLen THEN Num(tail[i - (n - TailLen)])
        ELSE Num(BaseClose)]

SeriesInputs ==
    {Bars(n, tail, last) : n \in SeriesLens, tail \in [1..(TailLen - 1) -> Closes],
                           last \in LastCloses}

InitSeries ==
    /\ ProgramStart
    /\ pc = "series"
    /\ input \in SeriesInputs
    /\ output = NoOutput

\* the indicator engine and every analysis function applied to one series
AnalyseSeries ==
    /\ pc = "series"
    /\ LET data == calculate_technical_indicators(Frame(input))
       IN  output' = [kind |-> "series", data |-> data, analysis |-> Analysis(data)]
    /\ pc' = "analysed"
    /\ UNCHANGED input
    /\ ProgramIdle

NextSeries == AnalyseSeries

SpecSeries == InitSeries /\ [][NextSeries]_vars

\* -------------------------------- specification over last-bar indicator rows

Half(n) == Fin(n, 2)

RowCloses == {Num(100)}

RowMA20s == {NaN, Num(95), Num(100), Num(105)}

RowMA50s == {NaN, Num(90), Num(100), Num(110)}

RowRSIs ==
    {NaN, Num(0), Num(29), Num(30), Num(35), Num(39), Num(40), Num(45), Half(91),
     Num(49), Num(50), Num(55), Half(111), Num(60), Num(65), Half(131), Num(70),
     Num(71), Num(100)}

\* MACD and Signal: above, equal, below
RowMACDs == {<<Num(1), Num(0)>>, <<Num(0), Num(0)>>, <<Num(0), Num(1)>>}

\* the highest close of the series: the last close itself, 5% or 20% above it
RowHighs == {Num(100), Num(105), Num(120)}

RowVolatilities == {Num(2), Half(5), Num(3), Half(7)}

RowLens == {MinSignalBars - 1, MinSignalBars, MinBars}

RowInputs ==
    [len : RowLens, close : RowCloses, high : RowHighs, MA20 : RowMA20s,
     MA50 : RowMA50s, RSI : RowRSIs, macd : RowMACDs, Volatility : RowVolatilities]

\* an enriched frame whose last row holds the given indicator values
RowFrame(r) ==
    [none |-> FALSE,
     Close |-> [i \in 1..r.len |-> IF i = r.len THEN r.close ELSE r.high],
     MA20 |-> r.MA20, MA50 |-> r.MA50, RSI |-> r.RSI,
     MACD |-> r.macd[1], Signal |-> r.macd[2], Volatility |-> r.Volatility]

InitRow ==
    /\ ProgramStart
    /\ pc = "row"
    /\ input \in RowInputs
    /\ output = NoOutput

\* every analysis function applied to one indicator row
AnalyseRow ==
    /\ pc = "row"
    /\ output' = [kind |-> "row", analysis |-> Analysis(RowFrame(input))]
    /\ pc' = "scored"
    /\ UNCHANGED input
    /\ ProgramIdle

NextRow == AnalyseRow

SpecRow == InitRow /\ [][NextRow]_vars

\* ------------------------------------------------------------ the program

\* what the market-data provider answers for one ticker: an error, or a price
\* history (possibly empty)
Answer(error, col) == [error |-> error, Close |-> col]

\* the last three closes of a generated history, as offsets from BaseClose
MarketTails ==
    {<<0, 0, 0>>, <<0, 1, 2>>, <<0, 2, 1>>, <<1, -1, 0>>, <<-2, 1, -1>>, <<1, 0, -1>>}

\* a history of n bars: BaseClose throughout, then the closes BaseClose + t[1],
\* BaseClose + t[2] and last
MarketBars(n, t, last) ==
    [i \in 1..n |->
        IF i = n THEN last
        ELSE IF i = n - 1 THEN Num(BaseClose + t[2])
        ELSE IF i = n - 2 THEN Num(BaseClose + t[1])
        ELSE Num(BaseClose)]

\* the answers one ticker may get: an error, an empty history, a history one
\* bar short of MinBars, full histories, and full histories whose last close
\* is missing (NaN) or zero
Fetchable ==
    {Answer(TRUE, <<>>), Answer(FALSE, <<>>)}
    \cup {Answer(FALSE, MarketBars(MinBars - 1, <<0, 1, 2>>, Num(BaseClose + 2)))}
    \cup {Answer(FALSE, MarketBars(MinBars, t, Num(BaseClose + t[3]))) : t \in MarketTails}
    \cup {Answer(FALSE, MarketBars(MinBars, <<0, 1, 2>>, NaN)),
          Answer(FALSE, MarketBars(MinBars, <<0, 1, 2>>, Num(0)))}

\* lines 51-68: None on a provider error or an empty history
get_stock_data(answer) ==
    IF answer.error \/ Len(answer.Close) = 0 THEN None ELSE Frame(answer.Close)

\* what the user may type where a number is asked for: text float() rejects,
\* or a number (float() also accepts "nan")
Typed(numeric, value) == [numeric |-> numeric, value |-> value]

NotANumber == Typed(FALSE, NaN)

BudgetInputs ==
    {NotANumber, Typed(TRUE, Num(0)), Typed(TRUE, Num(BaseClose)),
     Typed(TRUE, Num(1000 * BaseClose))}

RiskInputs ==
    {NotANumber, Typed(TRUE, NaN), Typed(TRUE, Fin(1, 2)), Typed(TRUE, Num(1)),
     Typed(TRUE, Num(20)), Typed(TRUE, Num(21))}

ProfitInputs ==
    {NotANumber, Typed(TRUE, NaN), Typed(TRUE, Fin(2, 5)), Typed(TRUE, Fin(1, 2)),
     Typed(TRUE, Num(5)), Typed(TRUE, Fin(11, 2))}

\* variant: one valid field is enough
settings_accepted_either(new_risk, new_profit) ==
    \/ Le(Num(1), new_risk) /\ Le(new_risk, Num(20))
    \/ Le(Fin(1, 2), new_profit) /\ Le(new_profit, Num(5))

\* line 607
settings_accepted(new_risk, new_profit) ==
    /\ Le(Num(1), new_risk) /\ Le(new_risk, Num(20))
    /\ Le(Fin(1, 2), new_profit) /\ Le(new_profit, Num(5))

\* lines 442-456: the dict stored for a ticker ('name' and 'data' left out); the
\* loop fills in the ticker
opportunity(current_price, shares_possible, trend_score, signal, advanced) ==
    [ticker |-> 0,
     price |-> current_price,
     shares |-> shares_possible,
     investment |-> Mul(Num(shares_possible), current_price),
     trend_score |-> trend_score,
     signal |-> signal,
     growth_percent |-> advanced.growth_percent,
     target_price |-> advanced.target_price,
     stop_loss_price |-> advanced.stop_loss_price,
     holding_time |-> advanced.holding_time,
     exit_strategy |-> advanced.exit_strategy]

\* lines 410-456: the body of the screening loop for one ticker.  kind is "skip"
\* (a continue), "append" (opp is stored) or "raise" (exc leaves the loop).
screen_ticker(answer, the_budget) ==
    LET result == get_stock_data(answer)
        data_with_indicators == calculate_technical_indicators(result)
        current_price == iloc_last_Close(data_with_indicators)
        quotient == Div(the_budget, current_price)
        shares_possible == Trunc(quotient)
        raised == get_advanced_analysis(data_with_indicators).raises
        skip == [kind |-> "skip", exc |-> "none", opp |-> <<>>]
    IN  IF result.none THEN skip
        ELSE IF data_with_indicators.none THEN skip
        ELSE IF Gt(current_price, the_budget) THEN skip
        ELSE IF IntRaises(quotient) # "none"
        THEN [kind |-> "raise", exc |-> IntRaises(quotient), opp |-> <<>>]
        ELSE IF shares_possible < 1 THEN skip
        ELSE [kind |-> IF raised # "none" THEN "raise" ELSE "append",
              exc |-> raised,
              opp |-> IF raised # "none" THEN <<>>
                      ELSE <<opportunity(current_price, shares_possible,
                                         calculate_trend_strength(data_with_indicators),
                                         get_buy_signal(data_with_indicators),
                                         get_advanced_analysis(data_with_indicators))>>]

RECURSIVE insert_before_ties(_, _)
\* variant: opp placed in front of the entries with its own trend_score
insert_before_ties(sorted, opp) ==
    IF sorted = <<>> THEN <<opp>>
    ELSE IF Head(sorted).trend_score > opp.trend_score
    THEN <<Head(sorted)>> \o insert_before_ties(Tail(sorted), opp)
    ELSE <<opp>> \o sorted

RECURSIVE insert_desc(_, _)
\* opp placed behind every entry whose trend_score is at least its own
insert_desc(sorted, opp) ==
    IF sorted = <<>> THEN <<opp>>
    ELSE IF Head(sorted).trend_score >= opp.trend_score
    THEN <<Head(sorted)>> \o insert_desc(Tail(sorted), opp)
    ELSE <<opp>> \o sorted

RECURSIVE sort_by_trend_score(_)
\* line 461: list.sort(key=trend_score, reverse=True), a stable sort
sort_by_trend_score(opps) ==
    IF opps = <<>> THEN <<>>
    ELSE insert_desc(sort_by_trend_score(SubSeq(opps, 1, Len(opps) - 1)), opps[Len(opps)])

\* lines 510-549: what analyze_specific_stock prints for a frame
stock_report(price, trend_score, signal, advanced) ==
    IF advanced.raises # "none" THEN [kind |-> "raise", exc |-> advanced.raises]
    ELSE [kind |-> "report", exc |-> "none",
          price |-> price,
          trend_score |-> trend_score,
          signal |-> signal,
          growth_percent |-> advanced.growth_percent,
          target_price |-> advanced.target_price,
          stop_loss_price |-> advanced.stop_loss_price,
          holding_time |-> advanced.holding_time,
          exit_strategy |-> advanced.exit_strategy]

\* lines 488-549: what analyze_specific_stock prints, or the exception it raises
analyze_specific_stock(answer) ==
    LET result == get_stock_data(answer)
        data_with_indicators == calculate_technical_indicators(result)
    IN  IF result.none THEN [kind |-> "no data", exc |-> "none"]
        ELSE IF data_with_indicators.none THEN [kind |-> "not enough history", exc |-> "none"]
        ELSE stock_report(iloc_last_Close(data_with_indicators),
                          calculate_trend_strength(data_with_indicators),
                          get_buy_signal(data_with_indicators),
                          get_advanced_analysis(data_with_indicators))

\* the budgets a screening run can be started with (line 572)
RunBudgets == {t.value : t \in {u \in BudgetInputs : u.numeric /\ ~Le(u.value, Num(0))}}

\* the loop body and the single-stock analysis for every answer of the provider
\* (each evaluated once)
screened == [a \in Fetchable, b \in RunBudgets |-> screen_ticker(a, b)]

analysed == [a \in Fetchable |-> analyze_specific_stock(a)]

Init ==
    /\ ProgramStart
    /\ pc = "menu"
    /\ input = <<>>
    /\ output = NoOutput

Settings == <<RISK_PERCENTAGE, PROFIT_TARGET_MULTIPLIER>>

\* count, fetched and opportunities belong to one call of
\* find_stock_opportunities: the next menu operation starts without them
ForgetRun ==
    /\ count' = 0
    /\ fetched' = <<>>
    /\ opportunities' = <<>>

\* lines 569-576: menu choice 1 up to the call of find_stock_opportunities
FindOpportunities(typed) ==
    /\ pc = "menu"
    /\ ForgetRun
    /\ report' = NoReport
    /\ IF ~typed.numeric
       THEN /\ notice' = "invalid budget"
            /\ UNCHANGED <<pc, budget>>
       ELSE IF Le(typed.value, Num(0))
       THEN /\ budget' = typed.value
            /\ notice' = "budget must be greater than zero"
            /\ UNCHANGED pc
       ELSE /\ budget' = typed.value
            /\ pc' = "screening"
            /\ notice' = "analyzing"
    /\ UNCHANGED <<Settings, input, output>>

\* what the loop does with the outcome of its body for the ticker it took.  An
\* exception leaves find_stock_opportunities: main catches a ValueError (line
\* 585) and goes back to the menu, any other one ends the program (line 644).
LoopStep(step) ==
    /\ opportunities' =
           IF step.kind = "append"
           THEN Append(opportunities, [step.opp[1] EXCEPT !.ticker = count + 1])
           ELSE opportunities
    /\ pc' = IF step.kind # "raise" THEN pc
             ELSE IF step.exc = "ValueError" THEN "menu" ELSE "crashed"
    /\ notice' = IF step.kind # "raise" THEN notice
                 ELSE IF step.exc = "ValueError" THEN "invalid budget"
                 ELSE "an error occurred"

\* lines 403-456: one pass of the loop of find_stock_opportunities
ProcessTicker(answer) ==
    /\ pc = "screening"
    /\ count < NumTickers
    /\ count' = count + 1
    /\ fetched' = Append(fetched, answer)
    /\ LoopStep(screened[answer, budget])
    /\ UNCHANGED <<Settings, budget, report, input, output>>

\* lines 458-463 and 577: the sort, the return and display_opportunities
ReturnOpportunities ==
    /\ pc = "screening"
    /\ count = NumTickers
    /\ opportunities' = sort_by_trend_score(opportunities)
    /\ pc' = "displayed"
    /\ notice' = IF opportunities = <<>> THEN "no suitable opportunities" ELSE "top opportunities"
    /\ UNCHANGED <<Settings, budget, count, fetched, report, input, output>>

\* the outcome of a call of analyze_specific_stock; a ValueError is caught only
\* where the call stands inside the try of menu choice 1
Analysed(result, in_try) ==
    /\ report' = IF result.kind = "raise" THEN NoReport ELSE result
    /\ pc' = IF result.kind # "raise" THEN "menu"
             ELSE IF in_try /\ result.exc = "ValueError" THEN "menu"
             ELSE "crashed"
    /\ notice' = IF result.kind # "raise" THEN result.kind
                 ELSE IF in_try /\ result.exc = "ValueError" THEN "invalid budget"
                 ELSE "an error occurred"

\* lines 580-583: the offer to analyse one of the listed stocks
DetailPrompt(yes, answer) ==
    /\ pc = "displayed"
    /\ ForgetRun
    /\ IF yes THEN Analysed(analysed[answer], TRUE)
       ELSE /\ pc' = "menu"
            /\ UNCHANGED <<report, notice>>
    /\ UNCHANGED <<Settings, budget, input, output>>

\* lines 588-590: menu choice 2
AnalyzeStock(answer) ==
    /\ pc = "menu"
    /\ ForgetRun
    /\ Analysed(analysed[answer], FALSE)
    /\ UNCHANGED <<Settings, budget, input, output>>

\* lines 592-614: menu choice 3
AdjustRiskSettings(typed_risk, typed_profit) ==
    /\ pc = "menu"
    /\ ForgetRun
    /\ report' = NoReport
    /\ IF ~typed_risk.numeric \/ ~typed_profit.numeric
       THEN /\ notice' = "invalid numbers"
            /\ UNCHANGED Settings
       ELSE IF settings_accepted(typed_risk.value, typed_profit.value)
       THEN /\ RISK_PERCENTAGE' = typed_risk.value
            /\ PROFIT_TARGET_MULTIPLIER' = typed_profit.value
            /\ notice' = "settings updated"
       ELSE /\ notice' = "invalid settings"
            /\ UNCHANGED Settings
    /\ UNCHANGED <<pc, budget, input, output>>

\* lines 616-618: menu choice 4
Exit ==
    /\ pc = "menu"
    /\ ForgetRun
    /\ report' = NoReport
    /\ pc' = "exited"
    /\ notice' = "goodbye"
    /\ UNCHANGED <<Settings, budget, input, output>>

Next ==
    \/ \E typed \in BudgetInputs : FindOpportunities(typed)
    \/ \E answer \in Fetchable : ProcessTicker(answer)
    \/ ReturnOpportunities
    \/ \E yes \in BOOLEAN, answer \in Fetchable : DetailPrompt(yes, answer)
    \/ \E answer \in Fetchable : AnalyzeStock(answer)
    \/ \E r \in RiskInputs, p \in ProfitInputs : AdjustRiskSettings(r, p)
    \/ Exit

Spec == Init /\ [][Next]_vars

\* ------------------------------------------------- properties of the program

\* the close of the last bar of a provider's answer (NaN where it has no bar)
LastBar(answer) ==
    IF Len(answer.Close) = 0 THEN NaN ELSE answer.Close[Len(answer.Close)]

\* the positions of `opportunities` that hold the k-th ticker of the run
Listed(k) == {i \in 1..Len(opportunities) : opportunities[i].ticker = k}

\* C1: every opportunity of a screening run has a price the budget covers and
\* at least one share, and a ticker whose last-bar close is above the budget
\* is never among the opportunities.
C1_WithinBudget ==
    /\ \A i \in 1..Len(opportunities) :
          /\ Le(opportunities[i].price, budget)
          /\ opportunities[i].shares >= 1
    /\ \A k \in 1..Len(fetched) :
          Gt(LastBar(fetched[k]), budget) => Listed(k) = {}

\* a finished run that listed a ticker and left out one with a full history
\* whose last close is above the budget
C1_Witness ==
    /\ pc = "displayed"
    /\ opportunities # <<>>
    /\ \E k \in 1..Len(fetched) :
          /\ Len(fetched[k].Close) >= MinBars
          /\ Gt(LastBar(fetched[k]), budget)
          /\ Listed(k) = {}

\* C2: the list a screening run returns is in descending order of trend_score,
\* and opportunities with equal trend_score keep the order in which their
\* tickers were processed.
C2_SortedStable ==
    pc = "displayed" =>
        \A i, j \in 1..Len(opportunities) :
            i < j =>
                \/ opportunities[i].trend_score > opportunities[j].trend_score
                \/ /\ opportunities[i].trend_score = opportunities[j].trend_score
                   /\ opportunities[i].ticker < opportunities[j].ticker

\* a returned list of three in which the sort moved a later ticker to the
\* front and two tickers tie
C2_Witness ==
    /\ pc = "displayed"
    /\ Len(opportunities) >= 3
    /\ opportunities[1].ticker > opportunities[2].ticker
    /\ \E i, j \in 1..Len(opportunities) :
          i < j /\ opportunities[i].trend_score = opportunities[j].trend_score

\* a ticker that qualifies: data came, with at least 50 bars, and one share at
\* least is affordable
Qualifies(answer) ==
    /\ ~answer.error
    /\ Len(answer.Close) >= MinBars
    /\ Gt(LastBar(answer), Num(0))
    /\ Le(LastBar(answer), budget)

\* C3: a ticker for which something goes wrong is skipped and the run goes on:
\* once started, a run is under way or has returned, and a returned run has
\* taken every ticker and lists each one that qualifies.
C3_RunSurvivesEveryTicker ==
    /\ fetched # <<>> => pc \in {"screening", "displayed"}
    /\ pc = "displayed" =>
          /\ Len(fetched) = NumTickers
          /\ \A k \in 1..Len(fetched) : Qualifies(fetched[k]) => Listed(k) # {}

\* C4: a price series of fewer than 50 bars gets no indicators (None), and its
\* ticker is in no list of opportunities.
C4_ShortSeriesSkipped ==
    \A k \in 1..Len(fetched) :
        (~fetched[k].error /\ Len(fetched[k].Close) < MinBars) =>
            /\ calculate_technical_indicators(Frame(fetched[k].Close)).none
            /\ Listed(k) = {}

\* a finished run with a ticker of 49 affordable bars left out, another listed
C4_Witness ==
    /\ pc = "displayed"
    /\ opportunities # <<>>
    /\ \E k \in 1..Len(fetched) :
          /\ Len(fetched[k].Close) = MinBars - 1
          /\ Le(LastBar(fetched[k]), budget)
          /\ Listed(k) = {}

\* a value within [lo, hi]
Within(x, lo, hi) == Le(lo, x) /\ Le(x, hi)

\* what the user typed is not a pair of numbers within the two ranges
InvalidSettings(typed_risk, typed_profit) ==
    \/ ~typed_risk.numeric
    \/ ~typed_profit.numeric
    \/ ~Within(typed_risk.value, Num(1), Num(20))
    \/ ~Within(typed_profit.value, Fin(1, 2), Num(5))

SettingsInRange ==
    /\ Within(RISK_PERCENTAGE, Num(1), Num(20))
    /\ Within(PROFIT_TARGET_MULTIPLIER, Fin(1, 2), Num(5))

\* C10: a risk-settings update with a non-numeric or out-of-range field leaves
\* both settings as they were, and at every moment the stop-loss percentage is
\* within [1, 20] and the profit multiplier within [0.5, 5].
C10_SettingsGuarded ==
    /\ []SettingsInRange
    /\ [][\A r \in RiskInputs, p \in ProfitInputs :
             (AdjustRiskSettings(r, p) /\ InvalidSettings(r, p)) => UNCHANGED Settings]_vars

\* an update was accepted earlier and a later invalid one has just been refused
C10_Witness ==
    /\ Settings # <<Num(5), Num(2)>>
    /\ notice \in {"invalid settings", "invalid numbers"}

\* ------------------------------------- properties of the analysis functions

\* the five sub-scores of the trend strength, as the documentation lists them
TrendSubScores(r) ==
    <<IF Gt(r.close, r.MA20) THEN 20 ELSE 0,
      IF Gt(r.close, r.MA50) THEN 20 ELSE 0,
      IF Gt(r.MA20, r.MA50) THEN 20 ELSE 0,
      IF Within(r.RSI, Num(50), Num(70)) THEN 20
      ELSE IF Le(Num(40), r.RSI) /\ Lt(r.RSI, Num(50)) THEN 10 ELSE 0,
      IF Gt(r.macd[1], r.macd[2]) THEN 20 ELSE 0>>

\* close=100, MA20=95, MA50=90, RSI=60, MACD above Signal
BullishRow(r) ==
    /\ r.close = Num(100) /\ r.MA20 = Num(95) /\ r.MA50 = Num(90)
    /\ r.RSI = Num(60) /\ Gt(r.macd[1], r.macd[2])

\* C5: for every last-bar indicator row calculate_trend_strength is an integer
\* in [0, 100], the sum of the five sub-scores, and 100 for close=100, MA20=95,
\* MA50=90, RSI=60, MACD > Signal.
C5_TrendStrength ==
    pc = "scored" =>
        LET sub == TrendSubScores(input)
            trend_score == output.analysis.trend_score
        IN  /\ trend_score = sub[1] + sub[2] + sub[3] + sub[4] + sub[5]
            /\ trend_score \in 0..100
            /\ BullishRow(input) => trend_score = 100

C5_Witness ==
    /\ pc = "scored"
    /\ BullishRow(input)
    /\ output.analysis.trend_score = 100

\* the score of the buy signal, as the documentation lists its terms
SignalScore(r) ==
    (IF Gt(r.close, r.MA20) THEN 1 ELSE 0)
  + (IF Gt(r.close, r.MA50) THEN 1 ELSE 0)
  + (IF Gt(r.MA20, r.MA50) THEN 1 ELSE 0)
  + (IF Lt(r.RSI, Num(30)) THEN 1 ELSE IF Gt(r.RSI, Num(70)) THEN -1 ELSE 0)
  + (IF Gt(r.macd[1], r.macd[2]) THEN 1 ELSE -1)

\* C6: with at least 20 bars the score of get_buy_signal is in -2..5 and the
\* signal is BUY for a score >= 3, SELL for a score <= -1, HOLD for 0, 1, 2.
C6_BuySignal ==
    (pc = "scored" /\ input.len >= MinSignalBars) =>
        LET score == SignalScore(input)
        IN  /\ score \in -2..5
            /\ output.analysis.signal =
                  IF score >= 3 THEN "BUY" ELSE IF score <= -1 THEN "SELL" ELSE "HOLD"

\* the lowest SELL score that is not symmetric to a BUY score
C6_Witness ==
    /\ pc = "scored"
    /\ input.len >= MinSignalBars
    /\ SignalScore(input) = -1
    /\ output.analysis.signal = "SELL"

\* the growth table: the RSI buckets first, the moving averages only when the
\* RSI is in no bucket
GrowthTable(r) ==
    IF Within(r.RSI, Num(30), Num(45)) THEN 10
    ELSE IF Lt(Num(45), r.RSI) /\ Le(r.RSI, Num(55)) THEN 7
    ELSE IF Lt(Num(55), r.RSI) /\ Le(r.RSI, Num(65)) THEN 12
    ELSE IF Gt(r.close, r.MA20) /\ Gt(r.MA20, r.MA50) THEN 15
    ELSE IF Gt(r.MA20, r.close) /\ Gt(r.close, r.MA50) THEN 8
    ELSE IF Gt(r.close, r.MA50) THEN 5
    ELSE 0

\* C8: before the historical-high rule the growth percentage is the first
\* matching entry of the table (RSI buckets, then moving averages) and the
\* target is close * (1 + growth / 100); RSI = 35 gives 10 and close * 1.10;
\* with no higher close in the series this estimate is what is returned.
C8_GrowthTable ==
    (pc = "scored" /\ input.len >= MinBars) =>
        LET r == input
            est == output.analysis.estimate
            g == GrowthTable(r)
        IN  /\ est.growth_percent = Num(g)
            /\ Eq(est.target_price, Fin(r.close.n * (100 + g), r.close.d * 100))
            /\ r.RSI = Num(35) => /\ est.growth_percent = Num(10)
                                  /\ Eq(est.target_price, Mul(r.close, Fin(11, 10)))
            /\ r.high = r.close => output.analysis.growth = est

\* RSI = 35 with close > MA20 > MA50, where the moving averages alone give 15
C8_Witness ==
    /\ pc = "scored"
    /\ input.len >= MinBars
    /\ input.RSI = Num(35) /\ input.MA20 = Num(95) /\ input.MA50 = Num(90)
    /\ input.high = input.close
    /\ output.analysis.growth.growth_percent = Num(10)
    /\ Eq(output.analysis.growth.target_price, Num(110))

\* the highest close of a series
HistoricalHigh(col) ==
    CHOOSE m \in {col[i] : i \in 1..Len(col)} :
        ~IsNaN(m) /\ \A i \in 1..Len(col) : IsNaN(col[i]) \/ Le(col[i], m)

\* C7: when the highest close of the series is above the last close, the
\* growth percentage calculate_growth_potential returns is at most
\* (high / close - 1) * 100; the result is the estimate of the table or, lower
\* than it, the growth to the historical high with that high as the target.
C7_GrowthCap ==
    pc = "analysed" =>
        LET close == input[Len(input)]
            high == HistoricalHigh(input)
            growth == output.analysis.growth
            est == output.analysis.estimate
        IN  /\ Gt(high, close) =>
                  Le(growth.growth_percent, Mul(Sub(Div(high, close), Num(1)), Num(100)))
            /\ \/ growth = est
               \/ /\ Lt(growth.growth_percent, est.growth_percent)
                  /\ growth.target_price = high

\* a series whose estimate the historical high has lowered
C7_Witness ==
    /\ pc = "analysed"
    /\ ~output.data.none
    /\ Gt(HistoricalHigh(input), input[Len(input)])
    /\ Lt(output.analysis.growth.growth_percent, output.analysis.estimate.growth_percent)
    /\ output.analysis.growth.target_price = HistoricalHigh(input)

\* no close of the last RSIWindow changes is below the close before it
NoLossInWindow(col) ==
    \A i \in (Len(col) - RSIWindow + 1)..Len(col) : Ge(col[i], col[i - 1])

\* C9: at a bar whose 14-bar window is full (here the last bar of a series of
\* real closes) the RSI is a number in [0, 100], and it is 100 when no close of
\* the window is below its predecessor, unchanged closes included.
C9_RSIDefined ==
    (pc = "analysed" /\ ~output.data.none /\ \A i \in 1..Len(input) : IsFinite(input[i])) =>
        /\ Within(output.data.RSI, Num(0), Num(100))
        /\ NoLossInWindow(input) => Eq(output.data.RSI, Num(100))

\* C11: calculate_trend_strength is 0 whenever the MA20 or the MA50 of the last
\* bar is undefined (NaN), whatever close, RSI, MACD and Signal are.
C11_UndefinedAverageScoresZero ==
    (pc = "scored" /\ (IsNaN(input.MA20) \/ IsNaN(input.MA50))) =>
        output.analysis.trend_score = 0

\* the holding-time table: rows by volatility, columns by strong trend or not
HoldingTable(volatility, strong) ==
    IF Gt(volatility, Num(3))
    THEN IF strong THEN "4-6 weeks (Short-term)" ELSE "1-3 weeks (Very short-term)"
    ELSE IF Gt(volatility, Num(2)) /\ Le(volatility, Num(3))
    THEN IF strong THEN "2-4 months (Medium-term)" ELSE "1-2 months (Short-term)"
    ELSE IF strong THEN "4-6 months (Medium-term)" ELSE "2-3 months (Medium-term)"

\* C12: recommend_holding_time is the entry of the table for the volatility of
\* the last bar and for whether the trend score is above 70; a volatility of
\* exactly 2 or 3 and a trend score of exactly 70 fall in the lower bucket.
C12_HoldingTime ==
    pc = "scored" =>
        LET volatility == input.Volatility
            trend_score == output.analysis.trend_score
            holding_time == output.analysis.holding_time
        IN  /\ holding_time = HoldingTable(volatility, trend_score > 70)
            /\ (volatility = Num(3) /\ trend_score = 70) =>
                   holding_time = "1-2 months (Short-term)"
            /\ (volatility = Num(2) /\ trend_score = 70) =>
                   holding_time = "2-3 months (Medium-term)"

\* the boundary of both axes at once: volatility 3, trend score 70
C12_Witness ==
    /\ pc = "scored"
    /\ input.Volatility = Num(3)
    /\ output.analysis.trend_score = 70
    /\ output.analysis.holding_time = "1-2 months (Short-term)"

\* the stop-loss price of a close under the stop-loss percentage now set (the
\* settings change only between runs, so during and after a run this is the
\* percentage the run started with)
StopLossAsSet(close) == Mul(close, Sub(Num(1), Div(RISK_PERCENTAGE, Num(100))))

\* C13: the stop-loss price of every opportunity and of every single-ticker
\* report is close * (1 - stop-loss percentage / 100) for the percentage the
\* user has set.
C13_StopLossFollowsSetting ==
    /\ \A i \in 1..Len(opportunities) :
          Eq(opportunities[i].stop_loss_price, StopLossAsSet(opportunities[i].price))
    /\ report.kind = "report" =>
          Eq(report.stop_loss_price, StopLossAsSet(report.price))

\* close, MA20, MA50, RSI, MACD and Signal of the row are all numbers
RowDefined(r) ==
    /\ ~IsNaN(r.close) /\ ~IsNaN(r.MA20) /\ ~IsNaN(r.MA50)
    /\ ~IsNaN(r.RSI) /\ ~IsNaN(r.macd[1]) /\ ~IsNaN(r.macd[2])

\* C14: for every last-bar indicator row with close, MA20, MA50, RSI, MACD and
\* Signal defined, a SELL signal comes with a trend strength of at most 20.
C14_SellMeansWeakTrend ==
    (pc = "scored" /\ RowDefined(input) /\ output.analysis.signal = "SELL") =>
        output.analysis.trend_score <= 20

\* a SELL row that reaches the limit of 20
C14_Witness ==
    /\ pc = "scored"
    /\ RowDefined(input)
    /\ output.analysis.signal = "SELL"
    /\ output.analysis.trend_score = 20

\* C14, in a screening run: no opportunity carries SELL with a trend_score
\* above 20
C14_NoSellAboveTwentyListed ==
    \A i \in 1..Len(opportunities) :
        opportunities[i].signal = "SELL" => opportunities[i].trend_score <= 20

====
